---- MODULE Spec2Model ----
(***************************************************************************)
(* The debug commands of studio/src-tauri/src/main.rs (debug_start,        *)
(* debug_step, debug_continue, debug_stop, debug_get_variables) as a state *)
(* machine over the snapshot the caller holds.  Each command is stateless: *)
(* it receives the snapshot as JSON text, pastes it into a Python script,  *)
(* the script rebuilds an executor session from it, runs the executor and  *)
(* prints the new snapshot, which the command parses from stdout.          *)
(*                                                                         *)
(* The executor itself (skuldbot.executor.interactive_executor) is not     *)
(* part of the sources at hand; its start/step/continue_execution are      *)
(* modelled from sections 3 and 4 of the specification (the Executor*      *)
(* definitions).  Everything else is translated from main.rs.              *)
(***************************************************************************)
EXTENDS Integers, Sequences, FiniteSets, TLC

VARIABLES
    flow,       \* the dsl passed to the last debug_start
    bps,        \* the breakpoints passed to the last debug_start
    snap,       \* the last snapshot returned to the caller (NoSnap before any)
    result,     \* the DebugCommandResult of the last command
    calls,      \* the commands issued since the last debug_start, in order
    log,        \* the [node, outcome] pairs executed since the last debug_start
    lastRun,    \* what the last command's script did: nodes executed, error raised
    clock,      \* the wall clock the executor stamps times from
    sessions,   \* number of debug_start calls so far (source of session ids)
    inspected,  \* the last debug_get_variables call: its node id and result
    dslFile,    \* content of <temp_dir>/debug_dsl.json
    callers,    \* concurrent callers: where each is in its debug_start call
    twin,       \* the second run of a replay: its clock and last snapshot
    stdoutLines,\* the lines a command's Python process has printed
    debugProc,  \* DEBUG_PROCESS and the executor processes spawned so far
    runner,     \* the runner app's RunnerState and the threads calling it
    recent,     \* content of the recent-projects file
    catalog     \* NODE_CATALOG_CACHE and the threads loading the catalog

\* The debugger's variables, and those of the other subsystems.
DebugVars ==
    <<flow, bps, snap, result, calls, log, lastRun, clock, sessions, inspected,
      dslFile, callers, twin>>

SubsystemVars == <<stdoutLines, debugProc, runner, recent, catalog>>

vars == <<DebugVars, SubsystemVars>>

----------------------------------------------------------------------------
(* Bounds *)

MaxCalls == 3       \* commands issued against one session
MaxSessions == 2    \* debug_start calls in one behaviour
MaxSpawns == 6      \* executor processes spawned in one behaviour
MaxLines == 3       \* lines a command's process prints
MaxRunnerSpawns == 2 \* runner processes spawned in one behaviour
MaxRunnerTime == 2  \* seconds the runner app's clock advances
MaxPaths == 11  \* project paths ever added to the recent list
MaxReorders == 2  \* recent-list calls other than the plain add of a new path
MaxCatalogRuns == 3  \* runs of the catalog engine

\* The wall clock when session number k starts: later than every time the
\* sessions before it stamped (a command stamps at most 3 node visits).
StartTime(k) == (k - 1) * (3 * MaxCalls + 2) + 1

----------------------------------------------------------------------------
(* Characters and text.  A text is a sequence of one-character strings.    *)

DQ == "\""
BS == "\\"
SQ == "'"
NL == "\n"

Fail == <<"<fail>">>    \* the result of a decoder that raised

\* The text values a node can bind or report: with a single quote, with a
\* double quote, with two backslashes.
Texts == { <<"k", SQ>>, <<DQ>>, <<BS, BS>> }

RECURSIVE Flatten(_)
Flatten(ss) == IF ss = <<>> THEN <<>> ELSE Head(ss) \o Flatten(Tail(ss))

\* serde_json's string serialisation (the snapshot reaches debug_step as the
\* JSON text of a DebugSessionState): quote, backslash and newline escaped.
JsonEscapeChar(c) ==
    IF c = DQ THEN <<BS, DQ>>
    ELSE IF c = BS THEN <<BS, BS>>
    ELSE IF c = NL THEN <<BS, "n">>
    ELSE <<c>>

JsonEncodeString(t) ==
    <<DQ>> \o Flatten([i \in 1..Len(t) |-> JsonEscapeChar(t[i])]) \o <<DQ>>

\* session_state_json.replace("'", "\\'").replace("\n", "\\n")
EscapeForScript(j) ==
    Flatten([i \in 1..Len(j) |->
        IF j[i] = SQ THEN <<BS, SQ>>
        ELSE IF j[i] = NL THEN <<BS, "n">>
        ELSE <<j[i]>>])

\* Python reads the text as the body of the literal json.loads('...'):
\* backslash escapes are processed once more.
RECURSIVE PyLiteral(_)
PyLiteral(s) ==
    IF s = <<>> THEN <<>>
    ELSE IF Head(s) = BS /\ Len(s) >= 2
         THEN LET d == s[2]
                  rest == PyLiteral(SubSeq(s, 3, Len(s)))
              IN  IF d \in {BS, SQ, DQ} THEN <<d>> \o rest
                  ELSE IF d = "n" THEN <<NL>> \o rest
                  ELSE <<BS, d>> \o rest
         ELSE <<Head(s)>> \o PyLiteral(Tail(s))

\* json.loads on one string token: the opening quote, the content up to the
\* first unescaped quote, which must be the token's last character.
RECURSIVE JsonScan(_, _, _)
JsonScan(s, i, acc) ==
    IF i > Len(s) THEN Fail                               \* unterminated
    ELSE IF s[i] = DQ THEN (IF i = Len(s) THEN acc ELSE Fail)
    ELSE IF s[i] = NL THEN Fail                           \* control character
    ELSE IF s[i] = BS
         THEN IF i + 1 > Len(s) THEN Fail
              ELSE IF s[i + 1] \in {DQ, BS} THEN JsonScan(s, i + 2, Append(acc, s[i + 1]))
              ELSE IF s[i + 1] = "n" THEN JsonScan(s, i + 2, Append(acc, NL))
              ELSE Fail                                   \* invalid escape
    ELSE JsonScan(s, i + 1, Append(acc, s[i]))

JsonDecodeString(s) ==
    IF s = <<>> \/ Head(s) # DQ THEN Fail ELSE JsonScan(s, 2, <<>>)

\* What json.loads('{}') in the script makes of a text of the snapshot.
ScriptText(t) == JsonDecodeString(PyLiteral(EscapeForScript(JsonEncodeString(t))))

----------------------------------------------------------------------------
(* Data model: DebugNodeExecution and DebugSessionState.                   *)

Null == "null"          \* Option::None / Python None for ids and outputs
NoText == <<>>          \* None for an optional text (error)
NoTime == 0             \* None for an optional timestamp

Terminal == {"completed", "failed", "stopped"}
TerminalStatus == {"success", "error", "skipped"}

NoSnap == [state |-> "none"]        \* session_state: None
NoEvent == [type |-> "none"]        \* last_event: None

EmptyMap == [k \in {} |-> NoText]   \* the JSON object {}

Merge(g, b) ==
    [k \in DOMAIN g \cup DOMAIN b |-> IF k \in DOMAIN b THEN b[k] ELSE g[k]]

Range(f) == {f[x] : x \in DOMAIN f}

Last(s) == s[Len(s)]

DebugNodeExecution(id, type, label) ==
    [node_id |-> id, node_type |-> type, label |-> label, status |-> "pending",
     start_time |-> NoTime, end_time |-> NoTime, output |-> Null,
     error |-> NoText, variables |-> EmptyMap]

----------------------------------------------------------------------------
(* Flow graphs (the dsl argument of debug_start).                          *)

NodeType == "task"

NoEdges(ns) == [n \in ns |-> ""]

\* A flow over the declared nodes ns with the given success and error edges
\* (a node without an edge for an outcome maps to the empty target).
Flow(ns, succ, err) ==
    [nodes |-> ns,
     success |-> succ @@ NoEdges(Range(ns)),
     error |-> err @@ NoEdges(Range(ns))]

Single == Flow(<<"A">>, EmptyMap, EmptyMap)
Chain2 == Flow(<<"A", "B">>, "A" :> "B", EmptyMap)
Chain3 == Flow(<<"A", "B", "C">>, ("A" :> "B") @@ ("B" :> "C"), EmptyMap)
ErrorEdge == Flow(<<"A", "B">>, EmptyMap, "A" :> "B")
SelfLoop == Flow(<<"A">>, "A" :> "A", EmptyMap)
Ring == Flow(<<"A", "B">>, ("A" :> "B") @@ ("B" :> "A"), EmptyMap)
Reversed == Flow(<<"A", "B">>, "B" :> "A", EmptyMap)

Flows == {Single, Chain2, Chain3, ErrorEdge, SelfLoop, Ring, Reversed}

NodesOf(f) == Range(f.nodes)

\* The node map the executor builds from the dsl at start (section 4.1).
FlowNodeMap(f) ==
    [n \in NodesOf(f) |->
        [id |-> n, type |-> NodeType, label |-> n,
         outputs |-> [success |-> f.success[n], error |-> f.error[n]]]]

\* next_node(node_id, outcome): the edge for the outcome, empty = end of flow.
NextNode(nodeMap, n, outcome) ==
    IF outcome \notin DOMAIN nodeMap[n].outputs THEN Null
    ELSE LET t == nodeMap[n].outputs[outcome] IN IF t = "" THEN Null ELSE t

HasIncoming(f, n) ==
    \E m \in NodesOf(f) : f.success[m] = n \/ f.error[m] = n

\* The entry point taken to be the first declared node, whatever its edges.
EntryNodeFirstDeclared(f) == f.nodes[1]

\* The first declared node with no predecessor, else the first declared node.
EntryNode(f) ==
    LET free == {i \in 1..Len(f.nodes) : ~HasIncoming(f, f.nodes[i])}
    IN  IF free = {} THEN f.nodes[1]
        ELSE f.nodes[CHOOSE i \in free : \A j \in free : i <= j]

----------------------------------------------------------------------------
(* The node execution adapter: an opaque operation, any of these results.  *)

Bindings == {EmptyMap} \cup {[x |-> t] : t \in Texts}

ErrorTexts == { <<"k">>, <<DQ>> }

\* The adapter itself failing (a crash, a malformed response): no outcome.
AdapterCrash ==
    [outcome |-> "crash", output |-> Null, bindings |-> EmptyMap, error_message |-> NoText]

AdapterResults ==
    {[outcome |-> "success", output |-> "out", bindings |-> b, error_message |-> NoText] :
        b \in Bindings}
    \cup
    {[outcome |-> "error", output |-> Null, bindings |-> EmptyMap, error_message |-> m] :
        m \in ErrorTexts}
    \cup {AdapterCrash}

----------------------------------------------------------------------------
(* The executor's algorithms, from sections 4.2 - 4.4 of the specification.*)

VisitCap == 3       \* maximum node visits of one continue (section 4.4)

\* The error the executor attaches to the current node when the adapter
\* itself fails (section 4.3, edge cases).
SyntheticError == <<"a", "d", "a", "p", "t", "e", "r">>

\* What a run of the executor leaves behind.
Ran(session, executed, raised, error) ==
    [session |-> session, executed |-> executed, raised |-> raised, error |-> error]

\* One executed node: its id and what the adapter answered.
Visit(n, r) == [node |-> n, outcome |-> r.outcome, adapter |-> r]

\* start taking as entry point whichever node an unstable iteration order
\* puts first in this process.
ExecutorStartUnstableEntry(f, b, sid, now) ==
    LET entry == f.nodes[((sid - 1) % Len(f.nodes)) + 1]
        def == FlowNodeMap(f)[entry]
    IN  [session_id |-> sid,
         state |-> IF entry \in b THEN "paused" ELSE "running",
         current_node_id |-> entry,
         breakpoints |-> b,
         execution_order |-> <<entry>>,
         node_executions |-> (entry :> DebugNodeExecution(entry, def.type, def.label)),
         global_variables |-> EmptyMap,
         start_time |-> now,
         paused_at_breakpoint |-> entry \in b]

\* start: position on the entry point; pause at once when it is a breakpoint.
ExecutorStart(f, b, sid, now) ==
    LET entry == EntryNode(f)
        def == FlowNodeMap(f)[entry]
    IN  [session_id |-> sid,
         state |-> IF entry \in b THEN "paused" ELSE "running",
         current_node_id |-> entry,
         breakpoints |-> b,
         execution_order |-> <<entry>>,
         node_executions |-> (entry :> DebugNodeExecution(entry, def.type, def.label)),
         global_variables |-> EmptyMap,
         start_time |-> now,
         paused_at_breakpoint |-> entry \in b]

\* Steps 2 - 6 of section 4.3 for the node at current_node_id, with the
\* adapter's result r.  The session is left "running" when there is a next
\* node; step then pauses, continue goes on.  An adapter that fails ends
\* the session Failed on the current node, whatever edges it declares.
ExecuteNode(s, nodeMap, r, now) ==
    LET n == s.current_node_id
        def == nodeMap[n]
        ok == r.outcome = "success"
        crashed == r.outcome = "crash"
        before == IF n \in DOMAIN s.node_executions THEN s.node_executions[n]
                  ELSE DebugNodeExecution(n, def.type, def.label)
        after == IF ok
                 THEN [before EXCEPT !.status = "success", !.start_time = now,
                                     !.end_time = now, !.output = r.output,
                                     !.variables = r.bindings]
                 ELSE [before EXCEPT !.status = "error", !.start_time = now,
                                     !.end_time = now,
                                     !.error = IF crashed THEN SyntheticError
                                               ELSE r.error_message]
        next == IF crashed THEN Null ELSE NextNode(nodeMap, n, r.outcome)
        touched == IF next = Null \/ next \in DOMAIN s.node_executions \/ next = n
                   THEN EmptyMap
                   ELSE IF next \in DOMAIN nodeMap
                        THEN (next :> DebugNodeExecution(next, nodeMap[next].type,
                                                         nodeMap[next].label))
                        ELSE EmptyMap
    IN  [s EXCEPT
            !.node_executions = (n :> after) @@ touched @@ s.node_executions,
            !.global_variables = IF ok THEN Merge(s.global_variables, r.bindings)
                                 ELSE s.global_variables,
            !.execution_order = IF ok /\ (s.execution_order = <<>> \/ Last(s.execution_order) # n)
                                THEN Append(s.execution_order, n)
                                ELSE s.execution_order,
            !.state = IF next # Null THEN "running"
                      ELSE IF ok THEN "completed" ELSE "failed",
            !.current_node_id = IF next # Null THEN next ELSE n,
            !.paused_at_breakpoint = FALSE]

\* step appending the executed node to execution_order unconditionally.
ExecutorStepAlwaysAppends(s, nodeMap, r, now) ==
    IF s.state \in Terminal THEN Ran(s, <<>>, "SessionTerminated", "")
    ELSE IF s.current_node_id \notin DOMAIN nodeMap THEN Ran(s, <<>>, "UnknownNode", "")
    ELSE LET t == ExecuteNode(s, nodeMap, r, now)
         IN  Ran([t EXCEPT !.state = IF t.state = "running" THEN "paused" ELSE t.state,
                           !.execution_order = Append(s.execution_order, s.current_node_id)],
                 <<Visit(s.current_node_id, r)>>, "", "")

\* step: one node, then pause (section 4.3).
ExecutorStep(s, nodeMap, r, now) ==
    IF s.state \in Terminal THEN Ran(s, <<>>, "SessionTerminated", "")
    ELSE IF s.current_node_id \notin DOMAIN nodeMap THEN Ran(s, <<>>, "UnknownNode", "")
    ELSE LET t == ExecuteNode(s, nodeMap, r, now)
         IN  Ran([t EXCEPT !.state = IF t.state = "running" THEN "paused" ELSE t.state],
                 <<Visit(s.current_node_id, r)>>, "", "")

\* continue: the loop of section 4.4; every adapter result at every visit.
RECURSIVE ContinueFrom(_, _, _, _, _)
ContinueFrom(s, nodeMap, visits, executed, now) ==
    IF s.state \in {"completed", "failed"} THEN {Ran(s, executed, "", "")}
    ELSE IF s.current_node_id \in s.breakpoints
         THEN {Ran([s EXCEPT !.state = "paused", !.paused_at_breakpoint = TRUE],
                   executed, "", "")}
    ELSE IF visits >= VisitCap
         THEN {Ran([s EXCEPT !.state = "failed"], executed, "", "DivergenceDetected")}
    ELSE IF s.current_node_id \notin DOMAIN nodeMap
         THEN {Ran(s, executed, "UnknownNode", "")}
    ELSE UNION {
            ContinueFrom(ExecuteNode(s, nodeMap, r, now + visits), nodeMap, visits + 1,
                         Append(executed, Visit(s.current_node_id, r)),
                         now)
            : r \in AdapterResults }

ExecutorContinue(s, nodeMap, now) ==
    IF s.state \in Terminal THEN {Ran(s, <<>>, "SessionTerminated", "")}
    ELSE ContinueFrom(s, nodeMap, 0, <<>>, now)

----------------------------------------------------------------------------
(* The scripts debug_step and debug_continue run.                          *)

FailData == [state |-> "<fail>"]    \* json.loads raised

LoadMap(m) == [k \in DOMAIN m |-> ScriptText(m[k])]

LoadText(t) == IF t = NoText THEN NoText ELSE ScriptText(t)

TextsFail(j) ==
    \/ \E k \in DOMAIN j.global_variables : ScriptText(j.global_variables[k]) = Fail
    \/ \E n \in DOMAIN j.node_executions :
          \/ LoadText(j.node_executions[n].error) = Fail
          \/ \E k \in DOMAIN j.node_executions[n].variables :
                ScriptText(j.node_executions[n].variables[k]) = Fail

\* session_data = json.loads('<session_state_json, escaped>')
JsonLoads(j) ==
    IF TextsFail(j) THEN FailData
    ELSE [j EXCEPT
            !.global_variables = LoadMap(@),
            !.node_executions =
                [n \in DOMAIN @ |->
                    [@[n] EXCEPT !.variables = LoadMap(@), !.error = LoadText(@)]]]

\* RestoreSession with the session state not read back from the snapshot
\* (every restored session is 'paused', the default of line 692).
RestoreSessionDefaultState(d) ==
    [session_id |-> d.session_id,
     state |-> "paused",
     current_node_id |-> d.current_node_id,
     breakpoints |-> d.breakpoints,
     execution_order |-> d.execution_order,
     node_executions |-> d.node_executions,
     global_variables |-> d.global_variables,
     start_time |-> d.start_time,
     paused_at_breakpoint |-> d.paused_at_breakpoint]

\* RestoreSession with the breakpoints not read back from the snapshot.
RestoreSessionNoBreakpoints(d) ==
    [RestoreSessionDefaultState(d) EXCEPT !.state = d.state, !.breakpoints = {}]

\* executor.session = DebugSession(...) and the "Rebuild node executions" loop.
RestoreSession(d) ==
    [session_id |-> d.session_id,
     state |-> d.state,
     current_node_id |-> d.current_node_id,
     breakpoints |-> d.breakpoints,
     execution_order |-> d.execution_order,
     node_executions |->
        [n \in DOMAIN d.node_executions |->
            LET e == d.node_executions[n]
            IN  [node_id |-> e.node_id, node_type |-> e.node_type, label |-> e.label,
                 status |-> e.status, start_time |-> e.start_time,
                 end_time |-> e.end_time, output |-> e.output, error |-> e.error,
                 variables |-> e.variables]],
     global_variables |-> d.global_variables,
     start_time |-> d.start_time,
     paused_at_breakpoint |-> d.paused_at_breakpoint]

\* RebuiltOutputs with the error output pointing back at the node.
RebuiltOutputsErrorLoop(n) == [success |-> "", error |-> n]

\* RebuiltOutputs with a placeholder target on the success output.
RebuiltOutputsPlaceholder(n) == [success |-> "end", error |-> ""]

\* The outputs every rebuilt node gets: {'success': '', 'error': ''}.
RebuiltOutputs(n) == [success |-> "", error |-> ""]

\* executor._node_map: one entry per node of execution_order that has an
\* execution record.
RebuildNodeMap(s) ==
    [n \in {m \in Range(s.execution_order) : m \in DOMAIN s.node_executions} |->
        [id |-> n, type |-> s.node_executions[n].node_type,
         label |-> s.node_executions[n].label, outputs |-> RebuiltOutputs(n)]]

\* print(json.dumps({"type": "state", "session": executor.session.to_dict()}))
StateLine(s) == [type |-> "state", session |-> s]

\* stdout of a script whose executor run ended as run: nothing when it raised.
Stdout(run) == IF run.raised = "" THEN <<StateLine(run.session)>> ELSE <<>>

\* How the Python process of a command ends: the script runs, the process
\* dies before printing anything, or it cannot be spawned at all.
EngineOutcomes == {"ran", "EngineDied", "SpawnFailed"}

\* The script of debug_step without its executor.step() call.
StepScriptNoStep(j, r, now) ==
    LET d == JsonLoads(j)
    IN  IF d = FailData THEN Ran(NoSnap, <<>>, "JSONDecodeError", "")
        ELSE Ran(RestoreSession(d), <<>>, "", "")

\* The script of debug_step on the snapshot j with the adapter answering r.
StepScript(j, r, now) ==
    LET d == JsonLoads(j)
    IN  IF d = FailData THEN Ran(NoSnap, <<>>, "JSONDecodeError", "")
        ELSE LET s == RestoreSession(d) IN ExecutorStep(s, RebuildNodeMap(s), r, now)

\* The script of debug_continue with the breakpoints not handed to the
\* executor.
ContinueScriptNoBreakpoints(j, now) ==
    LET d == JsonLoads(j)
    IN  IF d = FailData THEN {Ran(NoSnap, <<>>, "JSONDecodeError", "")}
        ELSE LET s == RestoreSessionNoBreakpoints(d)
             IN  ExecutorContinue(s, RebuildNodeMap(s), now)

\* The script of debug_continue on the snapshot j: every run it can make.
ContinueScript(j, now) ==
    LET d == JsonLoads(j)
    IN  IF d = FailData THEN {Ran(NoSnap, <<>>, "JSONDecodeError", "")}
        ELSE LET s == RestoreSession(d) IN ExecutorContinue(s, RebuildNodeMap(s), now)

----------------------------------------------------------------------------
(* Response parsing and the DebugCommandResult.                            *)

SnapshotFields ==
    {"session_id", "state", "current_node_id", "breakpoints", "execution_order",
     "node_executions", "global_variables", "start_time", "paused_at_breakpoint"}

\* serde_json::from_value::<DebugSessionState>(session).ok()
Deserialize(v) == IF SnapshotFields \subseteq DOMAIN v THEN v ELSE NoSnap

\* A line that serde_json::from_str rejects.
NotJson == [text |-> "not json"]

\* The response loop keeping the snapshot of an earlier state line when a
\* later one fails to deserialize.
RECURSIVE ParseLinesKeepsValid(_, _, _)
ParseLinesKeepsValid(lines, session_state, last_event) ==
    IF lines = <<>> THEN [session_state |-> session_state, last_event |-> last_event]
    ELSE LET msg == Head(lines)
         IN  IF msg = NotJson THEN ParseLinesKeepsValid(Tail(lines), session_state, last_event)
             ELSE ParseLinesKeepsValid(Tail(lines),
                        IF /\ "type" \in DOMAIN msg
                           /\ msg.type = "state"
                           /\ "session" \in DOMAIN msg
                           /\ Deserialize(msg.session) # NoSnap
                        THEN Deserialize(msg.session) ELSE session_state,
                        msg)

\* for line in stdout_str.lines() { if let Ok(msg) = from_str(line) { ... } }
RECURSIVE ParseLines(_, _, _)
ParseLines(lines, session_state, last_event) ==
    IF lines = <<>> THEN [session_state |-> session_state, last_event |-> last_event]
    ELSE LET msg == Head(lines)
         IN  IF msg = NotJson THEN ParseLines(Tail(lines), session_state, last_event)
             ELSE ParseLines(Tail(lines),
                        IF /\ "type" \in DOMAIN msg
                           /\ msg.type = "state"
                           /\ "session" \in DOMAIN msg
                        THEN Deserialize(msg.session) ELSE session_state,
                        msg)

ParseResponse(stdout) == ParseLines(stdout, NoSnap, NoEvent)

\* Err(message): the command itself failed.
CommandErr(message) ==
    [returned |-> "Err", success |-> FALSE, message |-> message,
     session_state |-> NoSnap, last_event |-> NoEvent]

DebugCommandResult(parsed, message) ==
    [returned |-> "Ok",
     success |-> parsed.session_state # NoSnap,
     message |-> message,
     session_state |-> parsed.session_state,
     last_event |-> parsed.last_event]

\* f is the DSL the script loads from debug_dsl.json.
debug_start(f, b, sid, now) ==
    LET parsed == ParseResponse(<<StateLine(ExecutorStart(f, b, sid, now))>>)
    IN  DebugCommandResult(parsed, IF parsed.session_state # NoSnap
                                   THEN "Debug session started" ELSE "Failed to start")

debug_step(run) ==
    IF run.raised = "SpawnFailed" THEN CommandErr("Failed to execute step")
    ELSE DebugCommandResult(ParseResponse(Stdout(run)), "Step executed")

debug_continue(run) ==
    IF run.raised = "SpawnFailed" THEN CommandErr("Failed to execute continue")
    ELSE DebugCommandResult(ParseResponse(Stdout(run)), "Continued")

debug_stop ==
    [returned |-> "Ok", success |-> TRUE, message |-> "Debug session stopped",
     session_state |-> NoSnap, last_event |-> [type |-> "stopped"]]

\* serde_json::from_str on the JSON text of the snapshot: each text is
\* serialised and parsed back, with no script in between.
SerdeText(t) == JsonDecodeString(JsonEncodeString(t))

SerdeMap(m) == [k \in DOMAIN m |-> SerdeText(m[k])]

SerdeFails(j) ==
    \/ \E k \in DOMAIN j.global_variables : SerdeText(j.global_variables[k]) = Fail
    \/ \E n \in DOMAIN j.node_executions :
          \E k \in DOMAIN j.node_executions[n].variables :
             SerdeText(j.node_executions[n].variables[k]) = Fail

\* debug_get_variables with a missing execution record answered from the
\* global variables.
debug_get_variablesGlobalFallback(j, nid) ==
    IF SerdeFails(j) THEN [ok |-> FALSE, value |-> EmptyMap]
    ELSE IF nid # Null /\ nid \in DOMAIN j.node_executions
         THEN [ok |-> TRUE, value |-> SerdeMap(j.node_executions[nid].variables)]
         ELSE [ok |-> TRUE, value |-> SerdeMap(j.global_variables)]

\* debug_get_variables(session_state_json, node_id): Err on invalid JSON,
\* else the node's variables (or {}), or globalVariables (or {}).
debug_get_variables(j, nid) ==
    IF SerdeFails(j) THEN [ok |-> FALSE, value |-> EmptyMap]
    ELSE IF nid # Null
         THEN IF nid \in DOMAIN j.node_executions
              THEN [ok |-> TRUE,
                    value |-> IF "variables" \in DOMAIN j.node_executions[nid]
                              THEN SerdeMap(j.node_executions[nid].variables)
                              ELSE EmptyMap]
              ELSE [ok |-> TRUE, value |-> EmptyMap]
         ELSE [ok |-> TRUE,
               value |-> IF "global_variables" \in DOMAIN j
                         THEN SerdeMap(j.global_variables) ELSE EmptyMap]

----------------------------------------------------------------------------
(* The caller: it keeps the last snapshot a command returned and passes it *)
(* back to the next command.                                               *)

NoFlow == [nodes |-> <<>>, success |-> EmptyMap, error |-> EmptyMap]

\* No debug_get_variables call since the last other command.
NoInspect == [asked |-> FALSE, node |-> Null, ok |-> FALSE, value |-> EmptyMap]

\* The node ids a caller asks about: the flow's nodes and one that is not.
AskedNodes == NodesOf(flow) \cup {"Z"}

Kept(res) == IF res.session_state # NoSnap THEN res.session_state ELSE snap

\* The callers of the concurrent specification and the session ids the
\* executor gives their sessions.
Callers == {"c1", "c2"}

CallerId(c) == IF c = "c1" THEN 1 ELSE 2

\* No replay going on.
NoTwin == [clock |-> NoTime, last |-> NoSnap, snap |-> NoSnap]

\* A caller that has not called debug_start yet.
IdleCaller ==
    [pc |-> "idle", flow |-> NoFlow, bps |-> {}, started |-> NoSnap, snap |-> NoSnap]

\* No command has returned yet.
NoResult ==
    [returned |-> "none", success |-> FALSE, message |-> "",
     session_state |-> NoSnap, last_event |-> NoEvent]

\* Nothing printed, nothing parsed.
NoOutput == [lines |-> <<>>, parsedBy |-> "none"]

\* DEBUG_PROCESS empty and no executor process spawned yet.
NoProcesses == [handle |-> 0, alive |-> {}, spawned |-> 0, last |-> "none"]

\* start_time: None.
NoStartTime == [set |-> FALSE, at |-> 0]

\* RunnerState::new(): no process handle (0), no start time, mock mode off;
\* with it the runner processes alive, their count and the clock.
RunnerState ==
    [process |-> 0, start_time |-> NoStartTime, mock_running |-> FALSE,
     alive |-> {}, spawned |-> 0, now |-> 0]

\* No call made yet.
NoCall == [op |-> "none", ok |-> TRUE, error |-> "", answer |-> 0, before |-> RunnerState]

\* The threads calling into RunnerState and the mutexes of RunnerState.
Threads == {"t1", "t2"}

Mutexes == {"process", "mock_running", "start_time", "jobs_completed", "jobs_failed"}

\* RunnerState::new(), no call made, no thread inside a call.
RunnerNew ==
    [st |-> RunnerState,
     last |-> NoCall,
     owner |-> [m \in Mutexes |-> "free"],
     pc |-> [t \in Threads |-> [call |-> "idle", at |-> 0]]]

\* No recent-projects call made yet.
NoRecentCall == [op |-> "none", path |-> 0, ok |-> TRUE, before |-> <<>>]

\* No recent-projects file yet: exists is whether the file is there, list the
\* paths of the entries it parses to (first entry first), newest the path most
\* recently added (0: none), others the calls made so far other than the plain
\* add of a path not stored.
NoRecent == [exists |-> FALSE, list |-> <<>>, newest |-> 0, last |-> NoRecentCall,
             others |-> 0]

\* NODE_CATALOG_CACHE empty.
NoCatalog ==
    [cache |-> Null, runs |-> 0, loaded |-> 0,
     pc |-> [t \in Threads |-> [at |-> "idle", out |-> Null]],
     ret |-> [t \in Threads |-> [ok |-> TRUE, value |-> Null, ran |-> FALSE]]]

Init ==
    /\ flow = NoFlow
    /\ bps = {}
    /\ snap = NoSnap
    /\ result = NoResult
    /\ calls = <<>>
    /\ log = <<>>
    /\ lastRun = [op |-> "none", input |-> NoSnap, executed |-> <<>>, raised |-> "", error |-> ""]
    /\ clock = 1
    /\ sessions = 0
    /\ inspected = NoInspect
    /\ dslFile = NoFlow
    /\ callers = [c \in Callers |-> IdleCaller]
    /\ twin = NoTwin
    /\ stdoutLines = NoOutput
    /\ debugProc = NoProcesses
    /\ runner = RunnerNew
    /\ recent = NoRecent
    /\ catalog = NoCatalog

Start ==
    /\ sessions < MaxSessions
    /\ \E f \in Flows : \E b \in SUBSET NodesOf(f) :
        LET res == debug_start(f, b, sessions + 1, StartTime(sessions + 1))
        IN  /\ flow' = f
            /\ bps' = b
            /\ result' = res
            /\ snap' = res.session_state
            /\ dslFile' = f
    /\ UNCHANGED <<callers, twin, SubsystemVars>>
    /\ calls' = <<>>
    /\ log' = <<>>
    /\ lastRun' = [op |-> "start", input |-> NoSnap, executed |-> <<>>, raised |-> "", error |-> ""]
    /\ clock' = StartTime(sessions + 1) + 1
    /\ sessions' = sessions + 1
    /\ inspected' = NoInspect

Finish(op, run, res) ==
    /\ result' = res
    /\ snap' = Kept(res)
    /\ calls' = Append(calls, op)
    /\ log' = log \o run.executed
    /\ lastRun' = [op |-> op, input |-> snap, executed |-> run.executed,
                   raised |-> run.raised, error |-> run.error]
    /\ clock' = clock + Len(run.executed)
    /\ inspected' = NoInspect
    /\ UNCHANGED <<flow, bps, sessions, dslFile, callers, twin, SubsystemVars>>

Step ==
    /\ snap # NoSnap
    /\ Len(calls) < MaxCalls
    /\ \E e \in EngineOutcomes : \E r \in AdapterResults :
        LET run == IF e = "ran" THEN StepScript(snap, r, clock)
                   ELSE Ran(NoSnap, <<>>, e, "")
        IN  Finish("step", run, debug_step(run))

Continue ==
    /\ snap # NoSnap
    /\ Len(calls) < MaxCalls
    /\ \E e \in EngineOutcomes :
        \E run \in IF e = "ran" THEN ContinueScript(snap, clock)
                   ELSE {Ran(NoSnap, <<>>, e, "")} :
            Finish("continue", run, debug_continue(run))

Stop ==
    /\ snap # NoSnap
    /\ Len(calls) < MaxCalls
    /\ Finish("stop", Ran(NoSnap, <<>>, "", ""), debug_stop)

Next == Start \/ Step \/ Continue \/ Stop

Spec == Init /\ [][Next]_vars

\* Variable inspection between the commands of one session.
GetVariables ==
    /\ snap # NoSnap
    /\ \E nid \in AskedNodes \cup {Null} :
        LET got == debug_get_variables(snap, nid)
        IN  inspected' = [asked |-> TRUE, node |-> nid, ok |-> got.ok, value |-> got.value]
    /\ UNCHANGED <<flow, bps, snap, result, calls, log, lastRun, clock, sessions,
                   dslFile, callers, twin, SubsystemVars>>

FirstStart == sessions = 0 /\ Start

NextInspect == FirstStart \/ Step \/ Continue \/ Stop \/ GetVariables

SpecInspect == Init /\ [][NextInspect]_vars

----------------------------------------------------------------------------
(* Two callers, each driving a session of its own, their commands          *)
(* interleaved.  debug_start is an async command: between its write of     *)
(* debug_dsl.json and the read of that file by its script another          *)
(* debug_start may run.  DEBUG_PROCESS is only ever emptied (the child is  *)
(* dropped, never stored), so it carries nothing from call to call.        *)

\* The flows and breakpoints the concurrent callers start with.
CallerFlows == {Single, Chain2, Reversed}

CallerLeaves ==
    <<flow, bps, snap, result, calls, log, lastRun, clock, sessions, inspected, twin,
      SubsystemVars>>

\* debug_start up to std::fs::write(&dsl_file, &dsl).
WriteDsl(c) ==
    /\ callers[c].pc = "idle"
    /\ \E f \in CallerFlows : \E b \in {{}, NodesOf(f)} :
        /\ callers' = [callers EXCEPT ![c] = [@ EXCEPT !.pc = "written", !.flow = f, !.bps = b]]
        /\ dslFile' = f
    /\ UNCHANGED CallerLeaves

\* The rest of debug_start: the script loads debug_dsl.json and starts.
RunStart(c) ==
    /\ callers[c].pc = "written"
    /\ LET res == debug_start(dslFile, callers[c].bps, CallerId(c), clock)
       IN  callers' = [callers EXCEPT ![c] = [@ EXCEPT !.pc = "started",
                                                      !.started = res.session_state,
                                                      !.snap = res.session_state]]
    /\ UNCHANGED <<dslFile, CallerLeaves>>

\* debug_step on the caller's own snapshot.
CallerStep(c) ==
    /\ callers[c].pc = "started"
    /\ \E r \in AdapterResults :
        LET res == debug_step(StepScript(callers[c].snap, r, clock))
        IN  callers' = [callers EXCEPT ![c] = [@ EXCEPT !.pc = "stepped",
                            !.snap = IF res.session_state # NoSnap
                                     THEN res.session_state ELSE @]]
    /\ UNCHANGED <<dslFile, CallerLeaves>>

NextConcurrent == \E c \in Callers : WriteDsl(c) \/ RunStart(c) \/ CallerStep(c)

SpecConcurrent == Init /\ [][NextConcurrent]_vars

----------------------------------------------------------------------------
(* A replay: the same flow and breakpoints started twice, the same steps   *)
(* made on both runs, the adapter answering both alike.  The second run    *)
(* is a session of its own, started later.                                 *)

ReplayStart ==
    /\ sessions = 0
    /\ \E f \in Flows : \E b \in SUBSET NodesOf(f) :
        LET res == debug_start(f, b, 1, StartTime(1))
            again == debug_start(f, b, 2, StartTime(2))
        IN  /\ flow' = f
            /\ bps' = b
            /\ result' = res
            /\ snap' = res.session_state
            /\ dslFile' = f
            /\ twin' = [clock |-> StartTime(2) + 1, last |-> again.session_state,
                        snap |-> again.session_state]
    /\ calls' = <<>>
    /\ log' = <<>>
    /\ lastRun' = [op |-> "start", input |-> NoSnap, executed |-> <<>>, raised |-> "", error |-> ""]
    /\ clock' = StartTime(1) + 1
    /\ sessions' = 2
    /\ inspected' = NoInspect
    /\ UNCHANGED <<callers, SubsystemVars>>

ReplayStep ==
    /\ snap # NoSnap
    /\ twin.snap # NoSnap
    /\ Len(calls) < MaxCalls
    /\ \E r \in AdapterResults :
        LET run == StepScript(snap, r, clock)
            res == debug_step(run)
            again == debug_step(StepScript(twin.snap, r, twin.clock))
        IN  /\ result' = res
            /\ snap' = Kept(res)
            /\ log' = log \o run.executed
            /\ lastRun' = [op |-> "step", input |-> snap, executed |-> run.executed,
                           raised |-> run.raised, error |-> run.error]
            /\ clock' = clock + Len(run.executed)
            /\ twin' = [clock |-> twin.clock + Len(run.executed),
                        last |-> again.session_state,
                        snap |-> IF again.session_state # NoSnap
                                 THEN again.session_state ELSE twin.snap]
    /\ calls' = Append(calls, "step")
    /\ inspected' = NoInspect
    /\ UNCHANGED <<flow, bps, sessions, dslFile, callers, SubsystemVars>>

NextReplay == ReplayStart \/ ReplayStep

SpecReplay == Init /\ [][NextReplay]_vars

----------------------------------------------------------------------------
(* The processes of the debug commands.  debug_start spawns the            *)
(* interactive executor, reads its ready line and drops the Child without  *)
(* killing it or storing it in DEBUG_PROCESS; its stdin closes when        *)
(* debug_start returns, and the process then lives on until it exits by    *)
(* itself.  The script processes are waited for (output()) and are gone    *)
(* when their command returns.                                             *)

ProcessLeaves == <<DebugVars, stdoutLines, runner, recent, catalog>>

\* if let Some(mut child) = process_guard.take() { let _ = child.kill(); }
KillExisting(p) ==
    [p EXCEPT !.handle = 0,
              !.alive = IF p.handle = 0 THEN @ ELSE @ \ {p.handle}]

\* debug_start: kill what DEBUG_PROCESS holds, spawn, drop(child).
ProcStart ==
    /\ debugProc.spawned < MaxSpawns
    /\ LET p == KillExisting(debugProc)
           pid == p.spawned + 1
       IN  debugProc' = [p EXCEPT !.spawned = pid, !.alive = @ \cup {pid},
                                  !.last = "start"]
    /\ UNCHANGED ProcessLeaves

\* debug_stop: kill what DEBUG_PROCESS holds.
ProcStop ==
    /\ debugProc.spawned > 0
    /\ debugProc' = [KillExisting(debugProc) EXCEPT !.last = "stop"]
    /\ UNCHANGED ProcessLeaves

\* An executor process whose stdin was closed exits by itself.
ProcExit ==
    /\ \E pid \in debugProc.alive :
        debugProc' = [debugProc EXCEPT !.alive = @ \ {pid}, !.last = "exit"]
    /\ UNCHANGED ProcessLeaves

NextProcess == ProcStart \/ ProcStop \/ ProcExit

SpecProcess == Init /\ [][NextProcess]_vars

----------------------------------------------------------------------------
(* Response parsing on its own: the Python process of a command prints     *)
(* lines, then debug_start, debug_step or debug_continue parses them.      *)

\* What a line of the output can be: text that is not JSON, JSON without a
\* type, an event, a state line with a session that deserializes (two of
\* them), with one that does not, and with no session at all.
OutputLines ==
    { NotJson,
      [level |-> "info"],
      [type |-> "event"],
      StateLine(ExecutorStart(Single, {}, 1, 1)),
      StateLine(ExecutorStart(Chain2, {"A"}, 2, 1)),
      StateLine([state |-> "paused"]),
      [type |-> "state"] }

ParseLeaves ==
    <<flow, bps, snap, calls, log, lastRun, clock, sessions, inspected, dslFile,
      callers, twin, debugProc, runner, recent, catalog>>

\* The process prints one more line.
EmitLine ==
    /\ stdoutLines.parsedBy = "none"
    /\ Len(stdoutLines.lines) < MaxLines
    /\ \E line \in OutputLines :
        stdoutLines' = [stdoutLines EXCEPT !.lines = Append(@, line)]
    /\ UNCHANGED <<result, ParseLeaves>>

\* The response parsing of debug_start, debug_step or debug_continue.
ParseOutput ==
    /\ stdoutLines.parsedBy = "none"
    /\ \E op \in {"start", "step", "continue"} :
        LET parsed == ParseResponse(stdoutLines.lines)
        IN  /\ result' = DebugCommandResult(parsed,
                    IF op = "step" THEN "Step executed"
                    ELSE IF op = "continue" THEN "Continued"
                    ELSE IF parsed.session_state # NoSnap THEN "Debug session started"
                    ELSE "Failed to start")
            /\ stdoutLines' = [stdoutLines EXCEPT !.parsedBy = op]
    /\ UNCHANGED ParseLeaves

\* The next command's process starts printing.
NextCommand ==
    /\ stdoutLines.parsedBy # "none"
    /\ stdoutLines' = NoOutput
    /\ result' = NoResult
    /\ UNCHANGED ParseLeaves

NextParse == EmitLine \/ ParseOutput \/ NextCommand

SpecParse == Init /\ [][NextParse]_vars

----------------------------------------------------------------------------
(* The runner app's RunnerState, one call at a time.                       *)

\* What a call hands back, and the RunnerState it leaves.
Called(st, ok, error, answer) == [st |-> st, ok |-> ok, error |-> error, answer |-> answer]

\* RunnerState::start with the mock flag not looked at.
RunnerStartIgnoresMock(r, spawnOk) ==
    IF r.process # 0 THEN Called(r, FALSE, "Runner is already running", 0)
    ELSE LET s == IF spawnOk
                  THEN [r EXCEPT !.process = r.spawned + 1, !.spawned = @ + 1,
                                 !.alive = @ \cup {r.spawned + 1}]
                  ELSE [r EXCEPT !.mock_running = TRUE]
         IN  Called([s EXCEPT !.start_time = [set |-> TRUE, at |-> r.now]], TRUE, "", 0)

\* RunnerState::start: spawnOk is whether cmd.spawn() succeeds.
RunnerStart(r, spawnOk) ==
    IF r.process # 0 \/ r.mock_running
    THEN Called(r, FALSE, "Runner is already running", 0)
    ELSE LET s == IF spawnOk
                  THEN [r EXCEPT !.process = r.spawned + 1, !.spawned = @ + 1,
                                 !.alive = @ \cup {r.spawned + 1}]
                  ELSE [r EXCEPT !.mock_running = TRUE]
         IN  Called([s EXCEPT !.start_time = [set |-> TRUE, at |-> r.now]], TRUE, "", 0)

\* RunnerState::stop leaving the start time in place.
RunnerStopKeepsStartTime(r, killOk) ==
    IF r.process # 0 /\ ~killOk THEN Called(r, FALSE, "Failed to stop runner", 0)
    ELSE Called([r EXCEPT !.process = 0, !.alive = @ \ {r.process},
                          !.mock_running = FALSE],
                TRUE, "", 0)

\* RunnerState::stop: killOk is whether child.kill() succeeds.
RunnerStop(r, killOk) ==
    IF r.process # 0 /\ ~killOk THEN Called(r, FALSE, "Failed to stop runner", 0)
    ELSE Called([r EXCEPT !.process = 0, !.alive = @ \ {r.process},
                          !.mock_running = FALSE, !.start_time = NoStartTime],
                TRUE, "", 0)

\* RunnerState::is_running: waitOk is whether child.try_wait() succeeds.
RunnerIsRunning(r, waitOk) ==
    IF r.mock_running THEN TRUE
    ELSE IF r.process # 0 THEN waitOk /\ r.process \in r.alive
    ELSE FALSE

\* RunnerState::get_pid (0: None).
RunnerGetPid(r) == r.process

\* RunnerState::get_uptime.
RunnerGetUptime(r) == IF r.start_time.set THEN r.now - r.start_time.at ELSE 0

\* restart_runner: state.stop()?; sleep one second; state.start(&config).
RunnerRestart(r, killOk, spawnOk) ==
    LET stopped == RunnerStop(r, killOk)
    IN  IF ~stopped.ok THEN stopped
        ELSE RunnerStart([stopped.st EXCEPT !.now = IF @ < MaxRunnerTime THEN @ + 1 ELSE @],
                         spawnOk)

RunnerLeaves == <<DebugVars, stdoutLines, debugProc, recent, catalog>>

\* A completed call: the state it left and what it returned.
RunnerCalled(op, c) ==
    [runner EXCEPT !.st = c.st,
                   !.last = [op |-> op, ok |-> c.ok, error |-> c.error,
                             answer |-> c.answer, before |-> runner.st]]

StartRunner ==
    /\ \E spawnOk \in BOOLEAN :
        /\ spawnOk => runner.st.spawned < MaxRunnerSpawns
        /\ runner' = RunnerCalled("start", RunnerStart(runner.st, spawnOk))
    /\ UNCHANGED RunnerLeaves

StopRunner ==
    /\ \E killOk \in BOOLEAN :
        runner' = RunnerCalled("stop", RunnerStop(runner.st, killOk))
    /\ UNCHANGED RunnerLeaves

RestartRunner ==
    /\ \E killOk \in BOOLEAN : \E spawnOk \in BOOLEAN :
        /\ spawnOk => runner.st.spawned < MaxRunnerSpawns
        /\ runner' = RunnerCalled("restart", RunnerRestart(runner.st, killOk, spawnOk))
    /\ UNCHANGED RunnerLeaves

\* is_running, get_pid and get_uptime, as get_status reads them.
IsRunning ==
    /\ \E waitOk \in BOOLEAN :
        runner' = RunnerCalled("is_running",
                               Called(runner.st, TRUE, "",
                                      IF RunnerIsRunning(runner.st, waitOk) THEN 1 ELSE 0))
    /\ UNCHANGED RunnerLeaves

GetPid ==
    /\ runner' = RunnerCalled("get_pid", Called(runner.st, TRUE, "", RunnerGetPid(runner.st)))
    /\ UNCHANGED RunnerLeaves

GetUptime ==
    /\ runner' = RunnerCalled("get_uptime",
                              Called(runner.st, TRUE, "", RunnerGetUptime(runner.st)))
    /\ UNCHANGED RunnerLeaves

\* The spawned runner process exits on its own.
RunnerExits ==
    /\ runner.st.process \in runner.st.alive
    /\ runner' = [runner EXCEPT !.st.alive = @ \ {runner.st.process}]
    /\ UNCHANGED RunnerLeaves

\* A second passes.
RunnerTick ==
    /\ runner.st.now < MaxRunnerTime
    /\ runner' = [runner EXCEPT !.st.now = @ + 1]
    /\ UNCHANGED RunnerLeaves

NextRunner ==
    \/ StartRunner \/ StopRunner \/ RestartRunner
    \/ IsRunning \/ GetPid \/ GetUptime
    \/ RunnerExits \/ RunnerTick

SpecRunner == Init /\ [][NextRunner]_vars

----------------------------------------------------------------------------
(* RunnerState called from several threads: each call as the mutexes it     *)
(* locks and releases, in the order of the code.                            *)

\* One step of a call: lock or release mutex m, or do the work named m;
\* next is the step that follows, else the step taken on the early return.
Lock(m, n) == [act |-> "lock", m |-> m, next |-> n, else |-> n]
Unlock(m, n) == [act |-> "unlock", m |-> m, next |-> n, else |-> n]
Do(what, n, e) == [act |-> "do", m |-> what, next |-> n, else |-> e]

\* The steps of a plan moved k places on, to follow another plan.
Shift(plan, k) ==
    [i \in 1..Len(plan) |-> [plan[i] EXCEPT !.next = @ + k, !.else = @ + k]]

\* RunnerState::start: process, then mock_running, both held to the end;
\* start_time is locked for the one assignment.
StartPlan ==
    << Lock("process", 2), Lock("mock_running", 3), Do("start", 4, 7),
       Lock("start_time", 5), Do("set_start_time", 6, 6), Unlock("start_time", 7),
       Unlock("mock_running", 8), Unlock("process", 9) >>

\* RunnerState::stop locking mock_running before process.
StopPlanMockFirst ==
    << Lock("mock_running", 2), Lock("process", 3), Do("stop", 4, 7),
       Lock("start_time", 5), Do("clear_start_time", 6, 6), Unlock("start_time", 7),
       Unlock("process", 8), Unlock("mock_running", 9) >>

\* RunnerState::stop: the same order as start; a failed kill returns with
\* start_time never locked.
StopPlan ==
    << Lock("process", 2), Lock("mock_running", 3), Do("stop", 4, 7),
       Lock("start_time", 5), Do("clear_start_time", 6, 6), Unlock("start_time", 7),
       Unlock("mock_running", 8), Unlock("process", 9) >>

\* RunnerState::is_running: mock_running is released before process is
\* locked; step 7 is the return from inside the first block.
IsRunningPlan ==
    << Lock("mock_running", 2), Do("read_mock", 3, 7), Unlock("mock_running", 4),
       Lock("process", 5), Do("try_wait", 6, 6), Unlock("process", 8),
       Unlock("mock_running", 8) >>

\* RunnerState::get_pid.
GetPidPlan == << Lock("process", 2), Do("read_pid", 3, 3), Unlock("process", 4) >>

\* RunnerState::get_uptime.
GetUptimePlan ==
    << Lock("start_time", 2), Do("read_uptime", 3, 3), Unlock("start_time", 4) >>

\* get_status: the two job counters, each locked for the read alone, then
\* is_running, get_pid and get_uptime one after the other.
GetStatusPlan ==
    << Lock("jobs_completed", 2), Unlock("jobs_completed", 3),
       Lock("jobs_failed", 4), Unlock("jobs_failed", 5) >>
    \o Shift(IsRunningPlan, 4) \o Shift(GetPidPlan, 11) \o Shift(GetUptimePlan, 14)

ThreadCalls == {"start", "stop", "is_running", "get_pid", "get_uptime", "get_status"}

LockPlan(call) ==
    CASE call = "start" -> StartPlan
      [] call = "stop" -> StopPlan
      [] call = "is_running" -> IsRunningPlan
      [] call = "get_pid" -> GetPidPlan
      [] call = "get_uptime" -> GetUptimePlan
      [] call = "get_status" -> GetStatusPlan

\* The step thread t is at (only asked of a thread inside a call).
StepOf(t) == LockPlan(runner.pc[t].call)[runner.pc[t].at]

InCall(t) == runner.pc[t].call # "idle"

\* Thread t moves on to step n of its call, or returns when the plan is over.
MovedTo(t, n) ==
    IF n > Len(LockPlan(runner.pc[t].call))
    THEN [call |-> "idle", at |-> 0]
    ELSE [runner.pc[t] EXCEPT !.at = n]

\* A thread enters one of the calls.
ThreadCall(t) ==
    /\ ~InCall(t)
    /\ \E call \in ThreadCalls :
        runner' = [runner EXCEPT !.pc[t] = [call |-> call, at |-> 1]]
    /\ UNCHANGED RunnerLeaves

\* mutex.lock(): blocks while another thread holds the mutex.
Acquire(t) ==
    /\ InCall(t)
    /\ StepOf(t).act = "lock"
    /\ runner.owner[StepOf(t).m] = "free"
    /\ runner' = [runner EXCEPT !.owner[StepOf(t).m] = t,
                                !.pc[t] = MovedTo(t, StepOf(t).next)]
    /\ UNCHANGED RunnerLeaves

\* The guard goes out of scope.
Release(t) ==
    /\ InCall(t)
    /\ StepOf(t).act = "unlock"
    /\ runner.owner[StepOf(t).m] = t
    /\ runner' = [runner EXCEPT !.owner[StepOf(t).m] = "free",
                                !.pc[t] = MovedTo(t, StepOf(t).next)]
    /\ UNCHANGED RunnerLeaves

\* The work a call does under the locks it holds.
Body(t) ==
    /\ InCall(t)
    /\ StepOf(t).act = "do"
    /\ LET st == runner.st
           step == StepOf(t)
       IN  \E ok \in BOOLEAN :
            /\ (step.m = "start" /\ ok) => st.spawned < MaxRunnerSpawns
            /\ step.m \in {"set_start_time", "clear_start_time", "read_pid",
                           "read_uptime", "read_mock"} => ok
            /\ LET c == CASE step.m = "start" -> RunnerStart(st, ok)
                          [] step.m = "stop" -> RunnerStop(st, ok)
                          [] OTHER -> Called(st, TRUE, "", 0)
                   early == \/ step.m \in {"start", "stop"} /\ ~c.ok
                            \/ step.m = "read_mock" /\ st.mock_running
                   after == CASE step.m \in {"start", "stop"} ->
                                     [c.st EXCEPT !.start_time = st.start_time]
                              [] step.m = "set_start_time" ->
                                     [st EXCEPT !.start_time = [set |-> TRUE, at |-> st.now]]
                              [] step.m = "clear_start_time" ->
                                     [st EXCEPT !.start_time = NoStartTime]
                              [] OTHER -> st
               IN  runner' = [runner EXCEPT
                                !.st = after,
                                !.pc[t] = MovedTo(t, IF early THEN step.else ELSE step.next)]
    /\ UNCHANGED RunnerLeaves

\* What a thread inside a call does next.
ThreadStep(t) == Acquire(t) \/ Release(t) \/ Body(t)

NextThreads ==
    \/ \E t \in Threads : ThreadCall(t)
    \/ \E t \in Threads : Acquire(t)
    \/ \E t \in Threads : Release(t)
    \/ \E t \in Threads : Body(t)
    \/ RunnerExits

\* A thread inside a call is scheduled, and a thread waiting for a mutex that
\* is released again and again gets it in the end.
ThreadsScheduled == \A t \in Threads : SF_vars(ThreadStep(t))

SpecRunnerThreads == Init /\ [][NextThreads]_vars /\ ThreadsScheduled

----------------------------------------------------------------------------
(* The recent-projects file. A project is told apart by its path alone, so  *)
(* an entry is modelled by its path, a number standing for the string.      *)

ProjectPaths == 1..MaxPaths

\* recent.truncate(10)
RecentCap == 10

\* recent.retain(|p| p.path != path)
Retain(list, path) == SelectSeq(list, LAMBDA p : p # path)

\* recent.truncate(n)
Truncate(list, n) == IF Len(list) > n THEN SubSeq(list, 1, n) ELSE list

WriteOutcomes == {"written", "failed", "failed_emptied"}

\* fs::write: on failure the file is as it was, or was created or cut to
\* nothing before the failure (content that parses to no entries).
Written(r, list, write) ==
    CASE write = "written" -> [r EXCEPT !.exists = TRUE, !.list = list]
      [] write = "failed" -> r
      [] write = "failed_emptied" -> [r EXCEPT !.exists = TRUE, !.list = <<>>]

\* add_recent_project_internal without the retain.
add_recent_projectKeepsOld(r, path, readOk, write) ==
    LET recent0 == IF r.exists /\ readOk THEN r.list ELSE <<>>
        recent1 == Truncate(<<path>> \o recent0, RecentCap)
        file == Written(r, recent1, write)
    IN  [file EXCEPT !.newest = IF write = "written" THEN path ELSE r.newest,
                     !.last = [op |-> "add", path |-> path, ok |-> write = "written",
                               before |-> r.list]]

\* add_recent_project_internal: a file that cannot be read or parsed counts
\* as an empty list (unwrap_or_default).
add_recent_project(r, path, readOk, write) ==
    LET recent0 == IF r.exists /\ readOk THEN r.list ELSE <<>>
        recent1 == Truncate(<<path>> \o Retain(recent0, path), RecentCap)
        file == Written(r, recent1, write)
    IN  [file EXCEPT !.newest = IF write = "written" THEN path ELSE r.newest,
                     !.last = [op |-> "add", path |-> path, ok |-> write = "written",
                               before |-> r.list]]

\* remove_recent_project: Ok at once when there is no file; a read failure is
\* returned as Err.
remove_recent_project(r, path, readOk, write) ==
    LET called(ok) == [op |-> "remove", path |-> path, ok |-> ok, before |-> r.list]
    IN  IF ~r.exists THEN [r EXCEPT !.last = called(TRUE)]
        ELSE IF ~readOk THEN [r EXCEPT !.last = called(FALSE)]
        ELSE [Written(r, Retain(r.list, path), write)
                EXCEPT !.last = called(write = "written")]

\* The paths of the entries at the given places of the list.
PathsAt(list, places) == {list[i] : i \in places \cap DOMAIN list}

\* The paths not stored, and the first of them.
Unused(list) == ProjectPaths \ {list[i] : i \in DOMAIN list}
Fresh(list) == IF Unused(list) = {} THEN {}
               ELSE {CHOOSE p \in Unused(list) : \A q \in Unused(list) : p <= q}

\* The paths a call is made with: a path not stored (paths not stored are all
\* alike, so the first of them), or the path of the first, second or last entry.
CalledPaths(list) == Fresh(list) \cup PathsAt(list, {1, 2, Len(list)})

RecentLeaves == <<DebugVars, stdoutLines, debugProc, runner, catalog>>

\* The plain add: a path not stored, the file read and written.
PlainAdd(path, readOk, write) ==
    path \in Fresh(recent.list) /\ readOk /\ write = "written"

AddRecent ==
    /\ \E path \in CalledPaths(recent.list) : \E readOk \in BOOLEAN :
       \E write \in WriteOutcomes :
        /\ PlainAdd(path, readOk, write) \/ recent.others < MaxReorders
        /\ recent' = [add_recent_project(recent, path, readOk, write) EXCEPT
                        !.others = IF PlainAdd(path, readOk, write) THEN @ ELSE @ + 1]
    /\ UNCHANGED RecentLeaves

RemoveRecent ==
    /\ recent.others < MaxReorders
    /\ \E path \in CalledPaths(recent.list) : \E readOk \in BOOLEAN :
       \E write \in WriteOutcomes :
        recent' = [remove_recent_project(recent, path, readOk, write) EXCEPT
                     !.others = @ + 1]
    /\ UNCHANGED RecentLeaves

NextRecent == AddRecent \/ RemoveRecent

SpecRecent == Init /\ [][NextRecent]_vars

----------------------------------------------------------------------------
(* load_node_catalog, called from several threads.                          *)

\* What `python -m skuldbot.cli.ai_catalog --format text` may print.
CatalogTexts == {"catalog", "catalog (nodes updated)"}

\* The run of the engine: it cannot be started, exits with a failure, or
\* prints a catalog.
CatalogOutcomes == {"SpawnFailed", "ExitFailure"} \cup CatalogTexts

CatalogLeaves == <<DebugVars, stdoutLines, debugProc, runner, recent>>

\* What load_node_catalog hands back to thread t.
CatalogReturned(t, ok, value, ran) ==
    [catalog EXCEPT !.pc[t] = [at |-> "idle", out |-> Null],
                    !.ret[t] = [ok |-> ok, value |-> value, ran |-> ran]]

\* The first block: the cache is locked, read, and the lock released; a
\* cached catalog is returned at once.
CatalogCheck(t) ==
    /\ catalog.pc[t].at = "idle"
    /\ catalog' = IF catalog.cache # Null
                  THEN CatalogReturned(t, TRUE, catalog.cache, FALSE)
                  ELSE [catalog EXCEPT !.pc[t] = [at |-> "loading", out |-> Null]]
    /\ UNCHANGED CatalogLeaves

\* Command::output() with no lock held: a failure is returned as Err.
CatalogRun(t) ==
    /\ catalog.pc[t].at = "loading"
    /\ catalog.runs < MaxCatalogRuns
    /\ \E outcome \in CatalogOutcomes :
        catalog' = IF outcome \in CatalogTexts
                   THEN [catalog EXCEPT !.runs = @ + 1, !.loaded = @ + 1,
                                        !.pc[t] = [at |-> "loaded", out |-> outcome]]
                   ELSE [CatalogReturned(t, FALSE, outcome, TRUE) EXCEPT !.runs = @ + 1]
    /\ UNCHANGED CatalogLeaves

\* The last block: the cache is locked again and the catalog stored.
CatalogStore(t) ==
    /\ catalog.pc[t].at = "loaded"
    /\ catalog' = [CatalogReturned(t, TRUE, catalog.pc[t].out, TRUE)
                     EXCEPT !.cache = catalog.pc[t].out]
    /\ UNCHANGED CatalogLeaves

NextCatalog ==
    \/ \E t \in Threads : CatalogCheck(t)
    \/ \E t \in Threads : CatalogRun(t)
    \/ \E t \in Threads : CatalogStore(t)

SpecCatalog == Init /\ [][NextCatalog]_vars

----------------------------------------------------------------------------
(* Properties.                                                             *)

HasSnap == snap # NoSnap

\* The last command was op, issued on a non-terminal snapshot, and its
\* script ran the executor to the end.
Returned(op) ==
    /\ lastRun.op = op
    /\ lastRun.input.state \notin Terminal
    /\ lastRun.raised = ""

\* The node the flow graph puts next after the last command's run.
FlowNext ==
    IF lastRun.executed = <<>> THEN lastRun.input.current_node_id
    ELSE LET e == Last(lastRun.executed)
         IN  NextNode(FlowNodeMap(flow), e.node, e.outcome)

AllSucceeded(visits) == \A i \in 1..Len(visits) : visits[i].outcome = "success"

\* C1 (as claimed): a continue never executes a breakpointed node, and when
\* the node the flow puts next is a breakpoint it returns Paused on that
\* node with paused_at_breakpoint set, that node's record untouched
\* (scenario B: Chain2 with a breakpoint on B).
C1_BreakpointPrecision ==
    Returned("continue") =>
        /\ \A i \in 1..Len(lastRun.executed) : lastRun.executed[i].node \notin bps
        /\ (FlowNext # Null /\ FlowNext \in bps) =>
              /\ snap.state = "paused"
              /\ snap.current_node_id = FlowNext
              /\ snap.paused_at_breakpoint
              /\ \A i \in 1..Len(lastRun.executed) : lastRun.executed[i].node # FlowNext

\* C2 (as claimed): a step or continue on a Completed, Failed or Stopped
\* snapshot fails with SessionTerminated, returns no snapshot and leaves the
\* caller's snapshot as it was.
C2_TerminalFrozen ==
    (lastRun.op \in {"step", "continue"} /\ lastRun.input.state \in Terminal) =>
        /\ lastRun.raised = "SessionTerminated"
        /\ ~result.success
        /\ result.session_state = NoSnap
        /\ snap = lastRun.input

\* C3: within one session a node's status never leaves success, error or
\* skipped, and never goes back to pending.
C3_MonotonicStatus ==
    [][(snap # NoSnap /\ sessions' = sessions) =>
        \A n \in DOMAIN snap.node_executions :
            /\ n \in DOMAIN snap'.node_executions
            /\ snap.node_executions[n].status \in TerminalStatus =>
                  snap'.node_executions[n].status = snap.node_executions[n].status
            /\ snap'.node_executions[n].status = "pending" =>
                  snap.node_executions[n].status = "pending"]_vars

\* C3 witness: a step or continue was issued on a snapshot that already
\* held a node with a terminal status.
C3_Witness ==
    /\ lastRun.op \in {"step", "continue"}
    /\ \E n \in DOMAIN lastRun.input.node_executions :
          lastRun.input.node_executions[n].status \in TerminalStatus

\* C4 (as claimed): the session a script rebuilds from the snapshot's JSON
\* text equals the snapshot, in every reachable state.
C4_RoundTrip ==
    HasSnap => /\ JsonLoads(snap) # FailData
               /\ RestoreSession(JsonLoads(snap)) = snap

\* C5 (as claimed): a step on a non-terminal session executes exactly one
\* node, and when the flow has a next node for its outcome the session is
\* Paused on that node.
C5_StepPausesOnNext ==
    Returned("step") =>
        /\ Len(lastRun.executed) = 1
        /\ FlowNext # Null => (snap.state = "paused" /\ snap.current_node_id = FlowNext)

\* The linear chains among the flows, by length.
IsChain == flow \in {Single, Chain2, Chain3}

\* C6 (as claimed): on a chain of n nodes with no breakpoints and an adapter
\* that always succeeds, the session is Completed with execution_order the
\* chain after n steps, and not before.
C6_CompletionByStepping ==
    (/\ HasSnap /\ IsChain /\ bps = {}
     /\ \A i \in 1..Len(calls) : calls[i] = "step"
     /\ AllSucceeded(log)) =>
        /\ Len(calls) < Len(flow.nodes) => snap.state # "completed"
        /\ Len(calls) = Len(flow.nodes) =>
              (snap.state = "completed" /\ snap.execution_order = flow.nodes)

\* The last command was a step that executed one node with outcome error.
SteppedWithError ==
    /\ lastRun.op = "step"
    /\ Len(lastRun.executed) = 1
    /\ lastRun.executed[1].outcome = "error"

\* C7: a step whose node ends in error, with no error edge declared for it,
\* returns a Failed session with the node in status error and the adapter's
\* message recorded on it.
C7_ErrorWithoutEdgeFails ==
    (SteppedWithError /\ flow.error[lastRun.executed[1].node] = "") =>
        /\ result.success
        /\ result.session_state.state = "failed"
        /\ LET e == result.session_state.node_executions[lastRun.executed[1].node]
           IN  /\ e.status = "error"
               /\ e.error = lastRun.executed[1].adapter.error_message

\* C7 witness: such a step has happened and the caller holds the Failed session.
C7_Witness ==
    /\ SteppedWithError
    /\ flow.error[lastRun.executed[1].node] = ""
    /\ snap.state = "failed"

\* C8 (as claimed): a step whose node ends in error, with an error edge to T
\* declared, records the error and pauses on T instead of failing.
C8_ErrorEdgeRouting ==
    (SteppedWithError /\ flow.error[lastRun.executed[1].node] # "") =>
        /\ snap.state = "paused"
        /\ snap.current_node_id = flow.error[lastRun.executed[1].node]
        /\ snap.node_executions[lastRun.executed[1].node].status = "error"

\* C9 (as claimed): on a cyclic flow without breakpoints and an adapter that
\* always succeeds, continue visits VisitCap nodes and returns Failed with
\* DivergenceDetected (scenario D: SelfLoop, cap 3).
C9_DivergenceSafeguard ==
    (Returned("continue") /\ flow \in {SelfLoop, Ring} /\ bps = {}
        /\ AllSucceeded(lastRun.executed)) =>
        /\ snap.state = "failed"
        /\ lastRun.error = "DivergenceDetected"
        /\ Len(lastRun.executed) = VisitCap

\* C10 (as claimed): stop on a non-terminal session returns the snapshot
\* with state Stopped and every other field as in the input.
C10_StopFreezes ==
    Returned("stop") =>
        /\ result.session_state # NoSnap
        /\ result.session_state = [lastRun.input EXCEPT !.state = "stopped"]

\* C11 (as claimed): stop succeeds and returns a snapshot: the Stopped
\* snapshot for a non-terminal session (the same one when repeated), the
\* input unchanged for a session already Completed, Failed or Stopped.
C11_IdempotentStop ==
    lastRun.op = "stop" =>
        /\ result.success
        /\ result.session_state # NoSnap
        /\ lastRun.input.state \in Terminal => result.session_state = lastRun.input
        /\ lastRun.input.state \notin Terminal => result.session_state.state = "stopped"

\* What the snapshot holds for a node id, or for none.
HeldVariables(s, nid) ==
    IF nid = Null THEN s.global_variables
    ELSE IF nid \in DOMAIN s.node_executions
         THEN s.node_executions[nid].variables
         ELSE EmptyMap

\* C12: debug_get_variables answers a node id with that node's variables
\* as the snapshot holds them, with the empty map when the node has no
\* execution record, and no node id with the snapshot's global_variables;
\* the call leaves the snapshot and the last command's result as they were.
C12_GetVariablesReads ==
    [][inspected'.asked =>
          /\ inspected'.ok
          /\ inspected'.value = HeldVariables(snap, inspected'.node)
          /\ snap' = snap
          /\ result' = result]_vars

\* C12 witness (scenario E): a node succeeded with bindings, its variables
\* were read back, and so was the empty map for a node without a record.
C12_Witness ==
    /\ inspected.asked
    /\ inspected.node \notin DOMAIN snap.node_executions
    /\ inspected.node # Null
    /\ \E n \in DOMAIN snap.node_executions :
          /\ snap.node_executions[n].status = "success"
          /\ snap.node_executions[n].variables # EmptyMap
          /\ snap.global_variables # EmptyMap


\* The last command was a step or a continue on a non-terminal snapshot and
\* it handed a snapshot back.
SteppedOrContinued ==
    /\ lastRun.op \in {"step", "continue"}
    /\ lastRun.input.state \notin Terminal
    /\ result.session_state # NoSnap

C14_FailuresAreData ==
    (lastRun.op \in {"step", "continue"} /\ lastRun.input.state \notin Terminal) =>
        /\ result.returned = "Ok"
        /\ result.session_state # NoSnap
        /\ (lastRun.executed # <<>> /\ Last(lastRun.executed).outcome # "success") =>
              LET n == Last(lastRun.executed).node
              IN  /\ result.session_state.node_executions[n].status = "error"
                  /\ result.session_state.node_executions[n].error # NoText


\* The bindings of the nodes that succeeded, merged in order into g.
RECURSIVE MergeSucceeded(_, _)
MergeSucceeded(g, visits) ==
    IF visits = <<>> THEN g
    ELSE MergeSucceeded(IF Head(visits).outcome = "success"
                        THEN Merge(g, Head(visits).adapter.bindings) ELSE g,
                        Tail(visits))

\* C15: within a session the snapshot's global_variables loses no key, and
\* it changes only by a step or continue merging the bindings of nodes that
\* succeeded; stop, debug_get_variables, a failing node and a continue that
\* executes nothing leave it as it was.
C15_GlobalsOnlyBySuccess ==
    [][(snap # NoSnap /\ snap' # NoSnap /\ snap'.session_id = snap.session_id) =>
          /\ DOMAIN snap.global_variables \subseteq DOMAIN snap'.global_variables
          /\ snap'.global_variables # snap.global_variables =>
                /\ lastRun'.op \in {"step", "continue"}
                /\ \E i \in 1..Len(lastRun'.executed) :
                      lastRun'.executed[i].outcome = "success"
                /\ snap'.global_variables =
                      MergeSucceeded(snap.global_variables, lastRun'.executed)]_vars

\* C15 witness: a node's bindings were merged, then stop and
\* debug_get_variables left them in place.
C15_Witness ==
    /\ snap # NoSnap
    /\ snap.global_variables # EmptyMap
    /\ lastRun.op = "stop"
    /\ inspected.asked


IsPrefix(a, b) == Len(a) <= Len(b) /\ \A i \in 1..Len(a) : a[i] = b[i]

\* C16: the execution_order a step or continue returns extends the one it
\* was given, never holds the same node id in two consecutive positions,
\* and has the last node that succeeded among the entries from the end of
\* the old sequence on.
C16_ExecutionOrderAppendOnly ==
    SteppedOrContinued =>
        LET old == lastRun.input.execution_order
            new == result.session_state.execution_order
        IN  /\ IsPrefix(old, new)
            /\ \A i \in 1..(Len(new) - 1) : new[i] # new[i + 1]
            /\ \A k \in 1..Len(lastRun.executed) :
                  lastRun.executed[k].outcome = "success" =>
                     \E i \in Len(old)..Len(new) : i >= 1 /\ new[i] = lastRun.executed[k].node

\* C16 witness: a node that was already the last entry succeeded, and the
\* sequence was returned as it was.
C16_Witness ==
    /\ SteppedOrContinued
    /\ lastRun.executed # <<>>
    /\ Last(lastRun.executed).outcome = "success"
    /\ Last(lastRun.input.execution_order) = Last(lastRun.executed).node
    /\ result.session_state.execution_order = lastRun.input.execution_order

\* C17: the current_node_id of a snapshot returned by start, step or
\* continue, when set, is a node of the flow graph.
C17_CurrentNodeInGraph ==
    (lastRun.op \in {"start", "step", "continue"} /\ result.session_state # NoSnap) =>
        \/ result.session_state.current_node_id = Null
        \/ result.session_state.current_node_id \in NodesOf(flow)

\* C17 witness: a session rebuilt from the caller's snapshot executed a
\* node and came back positioned on a node of the graph.
C17_Witness ==
    /\ SteppedOrContinued
    /\ lastRun.executed # <<>>
    /\ Len(flow.nodes) > 1
    /\ result.session_state.current_node_id \in NodesOf(flow)

\* C18: the breakpoints of every snapshot a step, continue or stop returns
\* are the set passed to start.
C18_BreakpointsFixed ==
    (lastRun.op \in {"step", "continue", "stop"} /\ result.session_state # NoSnap) =>
        result.session_state.breakpoints = bps

\* C18 witness: a session started with a breakpoint was continued and
\* stepped, and still carries that breakpoint.
C18_Witness ==
    /\ lastRun.op = "step"
    /\ calls = <<"continue", "step">>
    /\ result.session_state # NoSnap
    /\ bps # {}
    /\ result.session_state.breakpoints = bps


\* C19 (as claimed): the snapshot a caller's debug_start returns is the one
\* it returns when run alone on the caller's own flow and breakpoints,
\* whatever the other caller does meanwhile.
C19_SessionsIndependent ==
    \A c \in Callers :
        callers[c].pc \in {"started", "stepped"} =>
            callers[c].started =
                debug_start(callers[c].flow, callers[c].bps, CallerId(c), clock).session_state


\* A snapshot without what names the session and without its time stamps.
Scrub(s) ==
    IF s = NoSnap THEN NoSnap
    ELSE [s EXCEPT !.session_id = 0,
                   !.start_time = NoTime,
                   !.node_executions =
                       [n \in DOMAIN s.node_executions |->
                           [s.node_executions[n] EXCEPT !.start_time = NoTime,
                                                        !.end_time = NoTime]]]

StepsEnd(j) == j.state \in {"completed", "failed"} \/ j.current_node_id \in j.breakpoints

\* debug_step applied again and again from the snapshot j, the adapter
\* answering as it did at the given visits, until StepsEnd.
RECURSIVE StepRepeatedly(_, _, _)
StepRepeatedly(j, visits, now) ==
    IF StepsEnd(j) \/ visits = <<>> THEN j
    ELSE LET res == debug_step(StepScript(j, Head(visits).adapter, now))
         IN  IF res.session_state = NoSnap THEN j
             ELSE StepRepeatedly(res.session_state, Tail(visits), now + 1)

NodeStatuses(j) == [n \in DOMAIN j.node_executions |-> j.node_executions[n].status]

\* C21: a continue on a Paused (or Running) snapshot ends in Paused,
\* Completed or Failed with the node statuses, execution_order,
\* global_variables, current_node_id and state that debug_step repeated
\* from the same snapshot ends with.
C21_ContinueIsRepeatedStep ==
    (Returned("continue") /\ result.session_state # NoSnap) =>
        LET c == result.session_state
            t == StepRepeatedly(lastRun.input, lastRun.executed, clock)
        IN  /\ c.state \in {"paused", "completed", "failed"}
            /\ StepsEnd(t)
            /\ NodeStatuses(c) = NodeStatuses(t)
            /\ c.execution_order = t.execution_order
            /\ c.global_variables = t.global_variables
            /\ c.current_node_id = t.current_node_id
            /\ c.state = t.state

\* C21 witness: a continue on a session paused on a breakpoint, in a flow
\* of several nodes, returned.
C21_Witness ==
    /\ Returned("continue")
    /\ result.session_state # NoSnap
    /\ lastRun.input.state = "paused"
    /\ Len(flow.nodes) > 1
    /\ bps # {}


\* The node ids some edge of the flow leads to.
EdgeTargets(f) == {f.success[m] : m \in NodesOf(f)} \cup {f.error[m] : m \in NodesOf(f)}

\* The positions, in declaration order, of the nodes no edge leads to.
Unreached(f) == {i \in 1..Len(f.nodes) : f.nodes[i] \notin EdgeTargets(f)}

C23_OneDebugProcess ==
    /\ Cardinality(debugProc.alive) <= 1
    /\ debugProc.last = "stop" => debugProc.alive = {}


\* The greatest member of a non-empty set of positions.
MaxOf(S) == CHOOSE i \in S : \A j \in S : j <= i

\* The positions of the printed lines that are JSON, of those whose type
\* is "state", and of those that also carry a session.
JsonAt == {i \in 1..Len(stdoutLines.lines) : stdoutLines.lines[i] # NotJson}

StateAt ==
    {i \in JsonAt : /\ "type" \in DOMAIN stdoutLines.lines[i]
                    /\ stdoutLines.lines[i].type = "state"}

SessionAt == {i \in StateAt : "session" \in DOMAIN stdoutLines.lines[i]}

\* What the three commands have in common once the output is parsed: Ok,
\* success exactly when a snapshot is returned, last_event the last line
\* that is JSON.
ParsedFrame ==
    /\ result.returned = "Ok"
    /\ result.success <=> result.session_state # NoSnap
    /\ result.last_event =
          IF JsonAt = {} THEN NoEvent ELSE stdoutLines.lines[MaxOf(JsonAt)]

\* C24 (as claimed): the snapshot comes from the last line whose type is
\* "state": none is returned when that line's session does not deserialize.
C24_LastStateLine ==
    stdoutLines.parsedBy # "none" =>
        /\ ParsedFrame
        /\ result.session_state =
              IF StateAt = {} THEN NoSnap
              ELSE LET line == stdoutLines.lines[MaxOf(StateAt)]
                   IN  IF "session" \in DOMAIN line THEN Deserialize(line.session)
                       ELSE NoSnap

\* C24 (amended): the snapshot comes from the last line whose type is
\* "state" and that carries a session; none is returned when that session
\* does not deserialize, and state lines without a session are passed over.
C24_LastSessionLine ==
    stdoutLines.parsedBy # "none" =>
        /\ ParsedFrame
        /\ result.session_state =
              IF SessionAt = {} THEN NoSnap
              ELSE Deserialize(stdoutLines.lines[MaxOf(SessionAt)].session)

\* C24 witness: a valid state line, then one whose session does not
\* deserialize, then an event: no snapshot, success false, the event last.
C24_Witness ==
    /\ stdoutLines.parsedBy # "none"
    /\ Len(stdoutLines.lines) = 3
    /\ SessionAt = {1, 2}
    /\ Deserialize(stdoutLines.lines[1].session) # NoSnap
    /\ result.session_state = NoSnap
    /\ ~result.success
    /\ result.last_event = [type |-> "event"]


\* The process handle, the mock flag and the start time are as the last
\* call found them.
RunnerUntouched ==
    /\ runner.st.process = runner.last.before.process
    /\ runner.st.mock_running = runner.last.before.mock_running
    /\ runner.st.start_time = runner.last.before.start_time

\* C25: a start that finds a process handle or mock mode on returns
\* "Runner is already running", leaves handle, mock flag and start time
\* as they were and spawns nothing.
C25_StartRejectedWhenRunning ==
    (/\ runner.last.op = "start"
     /\ runner.last.before.process # 0 \/ runner.last.before.mock_running) =>
        /\ ~runner.last.ok
        /\ runner.last.error = "Runner is already running"
        /\ RunnerUntouched
        /\ runner.st.spawned = runner.last.before.spawned

\* C25 witness: start was called in mock mode and turned down.
C25_Witness ==
    /\ runner.last.op = "start"
    /\ runner.last.before.mock_running
    /\ ~runner.last.ok
    /\ runner.st.mock_running

\* C26: handle and mock flag are never both set, the start time is set
\* exactly when one of them is; a stop that succeeds clears all three
\* (is_running false, no pid, uptime 0), one whose kill fails returns
\* an error and changes none of them.
C26_RunnerStateConsistent ==
    /\ ~(runner.st.process # 0 /\ runner.st.mock_running)
    /\ runner.st.start_time.set <=> (runner.st.process # 0 \/ runner.st.mock_running)
    /\ (runner.last.op = "stop" /\ runner.last.ok) =>
          /\ runner.st.process = 0
          /\ ~runner.st.mock_running
          /\ runner.st.start_time = NoStartTime
          /\ \A waitOk \in BOOLEAN : ~RunnerIsRunning(runner.st, waitOk)
          /\ RunnerGetPid(runner.st) = 0
          /\ RunnerGetUptime(runner.st) = 0
    /\ (runner.last.op = "stop" /\ ~runner.last.ok) =>
          /\ runner.last.error = "Failed to stop runner"
          /\ runner.last.before.process # 0
          /\ RunnerUntouched

\* C26 witness: a stop whose kill failed returned an error, the runner
\* left with its handle and start time, at a later time than it started.
C26_Witness ==
    /\ runner.last.op = "stop"
    /\ ~runner.last.ok
    /\ runner.st.process # 0
    /\ runner.st.start_time.set
    /\ RunnerGetUptime(runner.st) > 0

\* C28 (as claimed): a start called when is_running() answers false (its
\* try_wait succeeding) is not turned down with "Runner is already running".
C28_StartAfterNotRunning ==
    (/\ runner.last.op = "start"
     /\ ~RunnerIsRunning(runner.last.before, TRUE)) =>
        runner.last.error # "Runner is already running"


\* C27: a thread inside a call of RunnerState (start, stop, is_running,
\* get_pid, get_uptime, get_status) always comes to return from it, whatever
\* the other thread is calling at the same time.
C27_EveryCallReturns ==
    \A t \in Threads : InCall(t) ~> ~InCall(t)

\* Reached: a thread inside start or stop holds process and mock_running and
\* waits for start_time, which the other thread holds.
C27_Witness ==
    \E t \in Threads : \E u \in Threads \ {t} :
        /\ InCall(t)
        /\ StepOf(t).act = "lock"
        /\ runner.owner[StepOf(t).m] = u
        /\ runner.owner["process"] = t
        /\ runner.owner["mock_running"] = t


\* The list has no two entries with the same path.
NoDuplicates(list) == \A i \in DOMAIN list : \A j \in DOMAIN list : list[i] = list[j] => i = j

\* C29: the stored recent-projects list has at most 10 entries and no two
\* with the same path; the most recently added path, while stored, is first;
\* a remove_recent_project that returns Ok leaves no entry with the removed
\* path and the other entries in the order they had.
C29_RecentListKept ==
    /\ Len(recent.list) <= 10
    /\ NoDuplicates(recent.list)
    /\ (\E i \in DOMAIN recent.list : recent.list[i] = recent.newest) =>
            recent.list[1] = recent.newest
    /\ (recent.last.op = "add" /\ recent.last.ok) => recent.list[1] = recent.last.path
    /\ (recent.last.op = "remove" /\ recent.last.ok /\ recent.exists) =>
        /\ \A i \in DOMAIN recent.list : recent.list[i] # recent.last.path
        /\ recent.list = SelectSeq(recent.last.before, LAMBDA p : p # recent.last.path)

\* Reached: an eleventh path was added to a full list of ten, and the oldest
\* entry was dropped.
C29_Witness ==
    /\ recent.last.op = "add"
    /\ recent.last.ok
    /\ Len(recent.last.before) = 10
    /\ Len(recent.list) = 10
    /\ \A i \in 1..10 : recent.last.before[i] # recent.last.path
    /\ \A i \in 1..10 : recent.list[i] # recent.last.before[10]


\* C30 (as claimed): the engine prints the catalog at most once, whatever
\* the threads calling load_node_catalog do, and while no load has
\* succeeded the cache is empty.
C30_CatalogLoadedOnce ==
    /\ catalog.loaded <= 1
    /\ catalog.loaded = 0 => catalog.cache = Null

====
